---- MODULE Spec2Model ----
(***************************************************************************)
(* Model of the lightning-driver session gateway (api-server/src/main.rs)  *)
(* and client factory (lightning-client/src/factory.rs).                   *)
(*                                                                         *)
(* One api-server process goes through the steps of main(): read           *)
(* config.toml, connect_from_config, parse the listen address, load or     *)
(* create the session key, bind and serve.  While it serves, requests are  *)
(* handled by the four handlers.  A handler runs on one of the server's    *)
(* single-threaded workers up to its first await; the protected handlers   *)
(* take the std::sync::Mutex around the driver and keep the guard across   *)
(* the awaited backend call.  Sessions live in the cookie                  *)
(* (CookieSessionStore): the server keeps no session state besides the     *)
(* signing key.                                                            *)
(***************************************************************************)
EXTENDS Integers, FiniteSets, Sequences, Bags, TLC

\* ------------------------------------------------------------------ bounds
\* Requests that may be in flight (sent, response not yet received) at once.
MaxReq == 2
\* Process starts of the api-server that a behaviour contains.
MaxStarts == 2

\* The server's workers (each one thread running its requests' futures).
Workers == {"w1", "w2"}
\* Browser sessions (cookie jars).
Clients == {"c1"}
\* Passwords a caller may submit or the operator may set.
Passwords == {"pw1", "pw2"}
\* The password the operator sets with the set-password tool.
OperatorPassword == "pw1"

VARIABLES
    configFile,   \* config.toml: [hash, host, settings]
    keyFile,      \* session_key.bin: NoFile or [len, key]
    feature,      \* build: is the cargo feature "lnd-grpc" enabled
    srv,          \* the api-server process (see InitSrv)
    req,          \* the requests in flight: a bag of request records
    jar,          \* per client: the session cookie the browser holds (0: none)
    phase,        \* per client: "fresh", "verified" (a login answered 200),
                  \* "loggedOut" (a logout of its authenticated session
                  \* answered), "expired" (the browser dropped the cookie)
    retained,     \* per client: cookie values kept from before a logout
    starts,       \* number of process starts so far
    clnFeature,   \* build: is the cargo feature "cln" enabled
    adapter,      \* the lightning-client adapter exercised on its own: None
                  \* or the record its constructor returned
    last          \* the last constructor or trait-method call made on it:
                  \* [op, args, reply, res]

vars ==
    <<configFile, keyFile, feature, srv, req, jar, phase, retained, starts,
      clnFeature, adapter, last>>

\* Absent values are records, so that they compare with the records present.
NoFile == [absent |-> TRUE]
None == [none |-> TRUE]
\* No call has been made on the adapter layer.
NoCall == [op |-> "none"]

\* ------------------------------------------------------------ configuration
\* config.rs: a section is None or a record of its fields.  Credentials are
\* abstracted to what construction distinguishes.
NodeTypes == {"lnd-grpc", "lnd-rest", "cln", "lnd", ""}

LndGrpcSections ==
    {None} \cup [host : {"lnd:10009"}, macaroon_hex : {"0a0b", "zz"}, cert_hex : {""}]

LndRestSections ==
    {None} \cup [host : {"https://lnd:8080"}, macaroon_hex : {"0a0b", "zz"},
                 cert_path : {"tls.cert", "", "  "}]

ClnSections == {None} \cup [host : {"http://cln:3010"}]

Settings ==
    [node : [node_type : NodeTypes], lnd_grpc : LndGrpcSections,
     lnd_rest : LndRestSections, cln : ClnSections]

\* A config.toml whose [node] table is missing: valid TOML, no Settings.
Malformed == [malformed |-> TRUE]

\* ------------------------------------------------------------- constructors
Ok(v) == [ok |-> TRUE, val |-> v, err |-> "", io |-> <<>>]
Err(e) == [ok |-> FALSE, val |-> None, err |-> e, io |-> <<>>]

\* hex::decode succeeds on an even number of hex digits.
HexStrings == {"", "0a0b"}

\* str::trim on the paths of the model.
Trim(s) == IF s = "  " THEN "" ELSE s

\* The certificate files on disk: path -> is the file a PEM certificate.
CertFiles == [p \in {"tls.cert"} |-> TRUE]

\* A constructor without the emptiness check on cert_path (used to show that
\* C15 depends on it).
LndRestClient_new_unchecked(host, macaroon_hex, cert_path) ==
    LET path == Trim(cert_path) IN
    IF macaroon_hex \notin HexStrings THEN Err("invalid hex")
    ELSE IF path \notin DOMAIN CertFiles
         THEN [Err("Failed to read cert file") EXCEPT !.io = <<"read">>]
    ELSE IF ~CertFiles[path]
         THEN [Err("Invalid PEM certificate") EXCEPT !.io = <<"read">>]
    ELSE [Ok([kind |-> "lnd-rest", url |-> host, macaroon |-> macaroon_hex])
             EXCEPT !.io = <<"read", "tls">>]

\* LndRestClient::new: the checks in the order of the code; io lists the file
\* reads and TLS client constructions made.
LndRestClient_new(host, macaroon_hex, cert_path) ==
    LET path == Trim(cert_path) IN
    IF path = "" THEN Err("cert_path is required")
    ELSE IF macaroon_hex \notin HexStrings THEN Err("invalid hex")
    ELSE IF path \notin DOMAIN CertFiles
         THEN [Err("Failed to read cert file") EXCEPT !.io = <<"read">>]
    ELSE IF ~CertFiles[path]
         THEN [Err("Invalid PEM certificate") EXCEPT !.io = <<"read">>]
    ELSE [Ok([kind |-> "lnd-rest", url |-> host, macaroon |-> macaroon_hex])
             EXCEPT !.io = <<"read", "tls">>]

\* LndGrpcWrapper::connect; net: does the gRPC connect succeed.
LndGrpcWrapper_connect(cert_hex, macaroon_hex, addr, net) ==
    IF macaroon_hex \notin HexStrings THEN Err("Invalid macaroon hex")
    ELSE IF Trim(cert_hex) # "" /\ cert_hex \notin HexStrings THEN Err("invalid hex")
    ELSE IF ~net THEN [Err("LND gRPC connect failed") EXCEPT !.io = <<"connect">>]
    ELSE [Ok([kind |-> "lnd-grpc", url |-> addr, macaroon |-> macaroon_hex])
             EXCEPT !.io = <<"connect">>]

\* ClnClient::new never fails.
ClnClient_new(url) == Ok([kind |-> "cln", url |-> url, macaroon |-> ""])

\* A factory that dispatches on the sections that are populated instead of on
\* node.type alone (used to show that C8 depends on the dispatch).
connect_from_config_fallback(settings, feat, net) ==
    IF settings = Malformed THEN Err("missing field node")
    ELSE IF settings.node.node_type \notin {"lnd-grpc", "lnd-rest", "cln"}
         THEN Err("Unsupported node type")
    ELSE IF settings.lnd_rest # None
         THEN LndRestClient_new(settings.lnd_rest.host,
                  settings.lnd_rest.macaroon_hex, settings.lnd_rest.cert_path)
    ELSE IF settings.cln # None THEN ClnClient_new(settings.cln.host)
    ELSE IF settings.lnd_grpc # None /\ feat
         THEN LndGrpcWrapper_connect(settings.lnd_grpc.cert_hex,
                  settings.lnd_grpc.macaroon_hex, settings.lnd_grpc.host, net)
    ELSE Err("CLN config missing")

\* connect_from_config: settings is what config.toml deserializes to, feat the
\* build's lnd-grpc feature, net the outcome of a gRPC connect.
connect_from_config(settings, feat, net) ==
    IF settings = Malformed THEN Err("missing field node")
    ELSE LET t == settings.node.node_type IN
    CASE t = "lnd-grpc" ->
           IF ~feat THEN Err("lnd-grpc feature not enabled")
           ELSE IF settings.lnd_grpc = None THEN Err("LND gRPC config missing")
           ELSE LndGrpcWrapper_connect(settings.lnd_grpc.cert_hex,
                    settings.lnd_grpc.macaroon_hex, settings.lnd_grpc.host, net)
      [] t = "lnd-rest" ->
           IF settings.lnd_rest = None THEN Err("LND REST config missing")
           ELSE LndRestClient_new(settings.lnd_rest.host,
                    settings.lnd_rest.macaroon_hex, settings.lnd_rest.cert_path)
      [] t = "cln" ->
           IF settings.cln = None THEN Err("CLN config missing")
           ELSE ClnClient_new(settings.cln.host)
      [] OTHER -> Err("Unsupported node type")

\* ------------------------------------------------------------- session key
\* The length load_or_create_session_key demands of session_key.bin.
KeyFileLen == 32
\* The length of the master material Key::generate() makes and key.master()
\* returns, and the least length Key::from accepts without panicking.
MasterKeyLen == 64

\* load_or_create_session_key; file is session_key.bin, fresh the key a
\* generation would make.  Returns the result and the file afterwards.
load_or_create_session_key(file, fresh) ==
    IF file # NoFile
    THEN IF file.len # KeyFileLen
         THEN [ok |-> FALSE, key |-> 0, err |-> "session_key.bin must be 32 bytes",
               file |-> file]
         ELSE IF file.len < MasterKeyLen
         THEN [ok |-> FALSE, key |-> 0, err |-> "panic: Key::from: TooShort",
               file |-> file]
         ELSE [ok |-> TRUE, key |-> file.key, err |-> "", file |-> file]
    ELSE [ok |-> TRUE, key |-> fresh, err |-> "",
          file |-> [len |-> MasterKeyLen, key |-> fresh]]

\* ---------------------------------------------------------------- sessions
\* The hash set-password writes for a password (fixed salt).
Argon2(pw) == "$argon2id$" \o pw
\* PasswordHash::new parses PHC strings only.
PasswordHash_new(h) == h \in {Argon2(pw) : pw \in Passwords}
verify_password(pw, h) == h = Argon2(pw)

\* A session cookie is the state sealed under the signing key; the only state
\* ever sealed is {logged_in: true}, so a cookie is named by its key (0: no
\* cookie).  The middleware opens a cookie only under the current key.
HasSessionKey(cookie, key) == cookie # 0 /\ cookie = key
LoadSession(cookie, key) ==
    [state |-> IF HasSessionKey(cookie, key) THEN {"logged_in"} ELSE {},
     status |-> "Unchanged"]

session_insert(sess, k) ==
    IF sess.status = "Purged" THEN sess
    ELSE [state |-> sess.state \cup {k},
          status |-> IF sess.status = "Renewed" THEN "Renewed" ELSE "Changed"]
session_purge(sess) == [state |-> {}, status |-> "Purged"]
session_renew(sess) ==
    IF sess.status = "Purged" THEN sess ELSE [sess EXCEPT !.status = "Renewed"]

\* What SessionMiddleware over CookieSessionStore puts in the response.
ResponseCookie(hadKey, sess) ==
    IF ~hadKey THEN (IF sess.state # {} THEN "set" ELSE "none")
    ELSE CASE sess.status = "Changed" -> "set"
           [] sess.status = "Renewed" -> "set"
           [] sess.status = "Purged" -> "remove"
           [] OTHER -> "none"

\* --------------------------------------------------------------- handlers
\* POST /login: the response and the session afterwards.
login_handler(password, sess, cfg) ==
    IF ~PasswordHash_new(cfg.password_hash)
    THEN [status |-> 500, body |-> "", sess |-> sess]
    ELSE IF verify_password(password, cfg.password_hash)
    THEN [status |-> 200, body |-> "status: success",
          sess |-> session_insert(sess, "logged_in")]
    ELSE [status |-> 401, body |-> "error: invalid password", sess |-> sess]

\* DELETE /logout.
logout_handler(sess) ==
    [status |-> 200, body |-> "status: logged out", sess |-> session_purge(sess)]

\* An auth helper that renews and lets everyone through (used to show that C1
\* depends on the check).
require_auth_unchecked(sess) == [ok |-> TRUE, sess |-> session_renew(sess)]

\* require_auth: renew, then demand logged_in = true.
require_auth(sess) ==
    LET renewed == session_renew(sess) IN
    [ok |-> "logged_in" \in renewed.state, sess |-> renewed]

\* A handler that swallows the backend's error and answers 200 with an empty
\* result (used to show that C7 depends on the error arm).
BackendResponseSwallowed(kind, outcome) ==
    [status |-> 200, body |-> IF kind = "info" THEN "NodeInfo" ELSE "bolt11"]

\* The body get_info / create_invoice answer with after the backend call.
BackendResponse(kind, outcome) ==
    IF outcome = "ok"
    THEN [status |-> 200, body |-> IF kind = "info" THEN "NodeInfo" ELSE "bolt11"]
    ELSE [status |-> 500, body |-> "backend error message"]

\* A handle that is handed out without exclusion (used to show that C3 depends
\* on the mutex).
MutexFreeAlways(lock) == TRUE

\* driver.lock(): the mutex can be taken when nobody holds it.
MutexFree(lock) == ~lock
\* Dropping the guard at the end of the handler.
DropGuard(lock) == FALSE

\* ------------------------------------------------------------ main process
DefaultApiConfig == [password_hash |-> "", host |-> "127.0.0.1"]

\* main's api_cfg: the [api] table, or the open default when it is missing.
ApiConfigOf(file) == IF file.api = None THEN DefaultApiConfig ELSE file.api

\* host.parse::<IpAddr>()
ParsesAsIp(host) == host = "127.0.0.1"

\* A main that carries on after a failed construction (used to show that C9
\* depends on the early exit).
AfterConnectIgnored(res) == "addr"

\* main after connect_from_config().await?: the next step.
AfterConnect(res) == IF res.ok THEN "addr" ELSE "exited"

InitSrv ==
    [pc |-> "config", exit |-> "", apiCfg |-> None, driver |-> None, key |-> 0,
     lock |-> FALSE, served |-> FALSE]

ClnSettings ==
    [node |-> [node_type |-> "cln"], lnd_grpc |-> None, lnd_rest |-> None,
     cln |-> [host |-> "http://cln:3010"]]

\* The configurations the gateway is run under.
ApiTables ==
    {None, [password_hash |-> Argon2(OperatorPassword), host |-> "127.0.0.1"],
     [password_hash |-> Argon2(OperatorPassword), host |-> "localhost"]}
GatewaySettings ==
    {ClnSettings, [ClnSettings EXCEPT !.node.node_type = "lnd-rest"]}

Init ==
    /\ configFile \in [api : ApiTables, settings : GatewaySettings]
    /\ keyFile \in {NoFile, [len |-> KeyFileLen, key |-> 0]}
    /\ feature = FALSE
    /\ srv = InitSrv
    /\ req = EmptyBag
    /\ jar = [c \in Clients |-> 0]
    /\ phase = [c \in Clients |-> "fresh"]
    /\ retained = [c \in Clients |-> {}]
    /\ starts = 1
    /\ clnFeature = FALSE
    /\ adapter = None
    /\ last = NoCall

Exit(reason) == [srv EXCEPT !.pc = "exited", !.exit = reason]

\* main, lines 155-171: read config.toml and the [api] table.
ReadConfig ==
    /\ srv.pc = "config"
    /\ srv' = [srv EXCEPT !.pc = "connect", !.apiCfg = ApiConfigOf(configFile)]
    /\ UNCHANGED <<clnFeature, adapter, last, configFile, keyFile, feature,
                   req, jar, phase, retained, starts>>

\* main, line 173: build the one adapter, or exit with the error.
Connect ==
    /\ srv.pc = "connect"
    /\ \E net \in BOOLEAN :
         LET res == connect_from_config(configFile.settings, feature, net) IN
         srv' = [srv EXCEPT !.pc = AfterConnect(res),
                            !.exit = IF res.ok THEN "" ELSE res.err,
                            !.driver = res.val]
    /\ UNCHANGED <<clnFeature, adapter, last, configFile, keyFile, feature,
                   req, jar, phase, retained, starts>>

\* main, lines 175-179: the listen address.
ParseAddr ==
    /\ srv.pc = "addr"
    /\ srv' = IF ParsesAsIp(srv.apiCfg.host) THEN [srv EXCEPT !.pc = "key"]
              ELSE Exit("invalid IP address syntax")
    /\ UNCHANGED <<clnFeature, adapter, last, configFile, keyFile, feature,
                   req, jar, phase, retained, starts>>

\* main, line 181: the session key; a generated key is named by the start.
LoadKey ==
    /\ srv.pc = "key"
    /\ LET res == load_or_create_session_key(keyFile, starts) IN
         /\ keyFile' = res.file
         /\ srv' = IF res.ok THEN [srv EXCEPT !.pc = "bind", !.key = res.key]
                   ELSE Exit(res.err)
    /\ UNCHANGED <<clnFeature, adapter, last, configFile, feature, req, jar,
                   phase, retained, starts>>

\* main, lines 188-208: bind and run; bound: is the address free.
Bind ==
    /\ srv.pc = "bind"
    /\ \E bound \in BOOLEAN :
         srv' = IF bound THEN [srv EXCEPT !.pc = "serving"]
                ELSE Exit("address in use")
    /\ UNCHANGED <<clnFeature, adapter, last, configFile, keyFile, feature,
                   req, jar, phase, retained, starts>>

\* The operator stops the running server: its requests are dropped.
Stop ==
    /\ srv.pc = "serving"
    /\ srv' = [Exit("stopped") EXCEPT !.lock = FALSE]
    /\ req' = EmptyBag
    /\ UNCHANGED <<clnFeature, adapter, last, configFile, keyFile, feature,
                   jar, phase, retained, starts>>

\* The operator starts the server again.
Start ==
    /\ srv.pc = "exited"
    /\ starts < MaxStarts
    /\ starts' = starts + 1
    /\ srv' = InitSrv
    /\ UNCHANGED <<clnFeature, adapter, last, configFile, keyFile, feature,
                   req, jar, phase, retained>>

\* tools/set-password: write the new hash into [api], delete session_key.bin.
\* The tool touches files only, which the server reads at its start alone, so
\* a run of the tool while the server is up is the same as one after it stopped.
SetPassword ==
    /\ srv.pc = "exited"
    /\ configFile' = [configFile EXCEPT !.api =
           [password_hash |-> Argon2(OperatorPassword),
            host |-> ApiConfigOf(configFile).host]]
    /\ keyFile' = NoFile
    /\ UNCHANGED <<clnFeature, adapter, last, feature, srv, req, jar, phase,
                   retained, starts>>

\* ---------------------------------------------------------------- requests
Protected == {"info", "invoice"}

InFlight == BagToSet(req)
Put(r) == req (+) SetToBag({r})
Take(r) == req (-) SetToBag({r})
Replace(r, r2) == Take(r) (+) SetToBag({r2})
\* One more request can be in flight.
Room == BagCardinality(req) < MaxReq

\* A worker's thread runs handlers unless one of its requests sits in lock().
WorkerFree(w) == \A r \in InFlight : ~(r.pc = "blocked" /\ r.worker = w)

\* The cookie a request carries: the jar's, or one kept from before a logout.
Cookies(c, replay) == IF replay THEN retained[c] ELSE {jar[c]}

\* afterLogout: the client sent the request after a logout of its authenticated
\* session was answered and before a later login succeeded.  outcome: how the
\* backend call ended.  calls: the backend calls issued for the request.
Request(kind, c, replay, cookie, w, pw) ==
    [kind |-> kind, client |-> c, replay |-> replay, cookie |-> cookie,
     password |-> pw, afterLogout |-> ~replay /\ phase[c] = "loggedOut",
     worker |-> w, pc |-> "responded", status |-> 0, body |-> "",
     setCookie |-> "none", calls |-> 0, outcome |-> ""]

\* The handler's future completes with a response; its worker is free of it.
Respond(r, status, body, setCookie) ==
    [r EXCEPT !.pc = "responded", !.status = status, !.body = body,
              !.setCookie = setCookie, !.worker = "-"]

Accept(r) ==
    /\ req' = Put(r)
    /\ UNCHANGED <<clnFeature, adapter, last, configFile, keyFile, feature,
                   jar, phase, retained, starts>>

\* POST /login {password}
Login ==
    /\ srv.pc = "serving" /\ Room
    /\ \E c \in Clients, replay \in BOOLEAN, w \in Workers, pw \in Passwords :
       \E cookie \in Cookies(c, replay) :
         LET sess == LoadSession(cookie, srv.key)
             out == login_handler(pw, sess, srv.apiCfg)
         IN  /\ WorkerFree(w)
             /\ Accept(Respond(Request("login", c, replay, cookie, w, pw),
                    out.status, out.body,
                    ResponseCookie(HasSessionKey(cookie, srv.key), out.sess)))
             /\ srv' = [srv EXCEPT !.served = TRUE]

\* DELETE /logout
Logout ==
    /\ srv.pc = "serving" /\ Room
    /\ \E c \in Clients, replay \in BOOLEAN, w \in Workers :
       \E cookie \in Cookies(c, replay) :
         LET sess == LoadSession(cookie, srv.key)
             out == logout_handler(sess)
         IN  /\ WorkerFree(w)
             /\ Accept(Respond(Request("logout", c, replay, cookie, w, ""),
                    out.status, out.body,
                    ResponseCookie(HasSessionKey(cookie, srv.key), out.sess)))
             /\ srv' = [srv EXCEPT !.served = TRUE]

\* get_info / create_invoice up to the awaited backend call: require_auth,
\* then driver.lock(), which blocks the worker's thread while the mutex is held.
ProtectedBegin(kind, c, replay, cookie, w) ==
    LET r == Request(kind, c, replay, cookie, w, "")
        auth == require_auth(LoadSession(cookie, srv.key))
    IN  /\ srv.pc = "serving" /\ Room
        /\ WorkerFree(w)
        /\ IF ~auth.ok
           THEN /\ Accept(Respond(r, 401, "error: login required",
                       ResponseCookie(HasSessionKey(cookie, srv.key), auth.sess)))
                /\ srv' = [srv EXCEPT !.served = TRUE]
           ELSE IF MutexFree(srv.lock)
           THEN /\ Accept([r EXCEPT !.pc = "calling", !.calls = 1])
                /\ srv' = [srv EXCEPT !.served = TRUE, !.lock = TRUE]
           ELSE /\ Accept([r EXCEPT !.pc = "blocked"])
                /\ srv' = [srv EXCEPT !.served = TRUE]

\* GET /api/info
GetInfo ==
    \E c \in Clients, replay \in BOOLEAN, w \in Workers :
      \E cookie \in Cookies(c, replay) : ProtectedBegin("info", c, replay, cookie, w)

\* POST /api/invoice {msat, desc}
CreateInvoice ==
    \E c \in Clients, replay \in BOOLEAN, w \in Workers :
      \E cookie \in Cookies(c, replay) : ProtectedBegin("invoice", c, replay, cookie, w)

\* lock() returns in a handler that waited for the mutex; the call is issued.
LockAcquired ==
    \E r \in InFlight :
      /\ r.pc = "blocked"
      /\ MutexFree(srv.lock)
      /\ req' = Replace(r, [r EXCEPT !.pc = "calling", !.calls = @ + 1])
      /\ srv' = [srv EXCEPT !.lock = TRUE]
      /\ UNCHANGED <<clnFeature, adapter, last, configFile, keyFile, feature,
                     jar, phase, retained, starts>>

\* The backend call returns to the handler, which answers and drops the guard.
BackendReturn ==
    \E r \in InFlight, outcome \in {"ok", "err"} :
      /\ r.pc = "calling"
      /\ WorkerFree(r.worker)
      /\ LET out == BackendResponse(r.kind, outcome)
             auth == require_auth(LoadSession(r.cookie, srv.key))
         IN req' = Replace(r, Respond([r EXCEPT !.outcome = outcome],
                 out.status, out.body,
                 ResponseCookie(HasSessionKey(r.cookie, srv.key), auth.sess)))
      /\ srv' = [srv EXCEPT !.lock = DropGuard(srv.lock)]
      /\ UNCHANGED <<clnFeature, adapter, last, configFile, keyFile, feature,
                     jar, phase, retained, starts>>

\* The client receives a response and applies its cookie change.  A request
\* that replayed a retained cookie came from outside the jar and leaves it.
Deliver ==
    \E r \in InFlight :
      LET c == r.client IN
      /\ r.pc = "responded"
      /\ req' = Take(r)
      /\ IF r.replay
         THEN UNCHANGED <<jar, phase, retained>>
         ELSE /\ jar' = [jar EXCEPT ![c] =
                    CASE r.setCookie = "set" -> srv.key
                      [] r.setCookie = "remove" -> 0
                      [] OTHER -> @]
              /\ retained' = [retained EXCEPT ![c] =
                    IF r.setCookie = "remove" THEN @ \cup ({jar[c]} \ {0}) ELSE @]
              /\ phase' = [phase EXCEPT ![c] =
                    CASE r.kind = "login" /\ r.status = 200 -> "verified"
                      [] r.kind = "logout" /\ r.setCookie = "remove" -> "loggedOut"
                      [] OTHER -> @]
      /\ UNCHANGED <<clnFeature, adapter, last, configFile, keyFile, feature,
                     srv, starts>>

\* The browser session ends with no request of its own outstanding: the
\* session cookie is dropped.
Expire ==
    \E c \in Clients :
      /\ jar[c] # 0
      /\ \A r \in InFlight : r.client = c => r.replay
      /\ jar' = [jar EXCEPT ![c] = 0]
      /\ phase' = [phase EXCEPT ![c] = "expired"]
      /\ UNCHANGED <<clnFeature, adapter, last, configFile, keyFile, feature,
                     srv, req, retained, starts>>

Next ==
    \/ ReadConfig \/ Connect \/ ParseAddr \/ LoadKey \/ Bind \/ Stop \/ Start
    \/ SetPassword
    \/ Login \/ Logout \/ GetInfo \/ CreateInvoice
    \/ LockAcquired \/ BackendReturn \/ Deliver \/ Expire

Spec == Init /\ [][Next]_vars

\* ------------------------------------------------- the factory on its own
\* Every settings value and both builds, at the point main calls
\* connect_from_config.
InitFactory ==
    /\ configFile \in [api : {None}, settings : Settings \cup {Malformed}]
    /\ keyFile = NoFile
    /\ feature \in BOOLEAN
    /\ srv = [InitSrv EXCEPT !.pc = "connect", !.apiCfg = DefaultApiConfig]
    /\ req = EmptyBag
    /\ jar = [c \in Clients |-> 0]
    /\ phase = [c \in Clients |-> "fresh"]
    /\ retained = [c \in Clients |-> {}]
    /\ starts = 1
    /\ clnFeature = FALSE
    /\ adapter = None
    /\ last = NoCall

SpecFactory == InitFactory /\ [][Connect]_vars

\* ------------------------------------------------------------------ claims
\* The copies of requests in flight that are at pc.
CountAt(pc) ==
    BagCardinality([r \in {x \in InFlight : x.pc = pc} |-> req[r]])

SessionAuthenticated(r) == HasSessionKey(r.cookie, srv.key)

C2_Claim ==
    \A r \in InFlight :
      (r.kind \in Protected /\ ~r.replay /\ r.afterLogout) =>
          (r.pc = "responded" /\ r.status = 401)

\* C3: at most one request holds the handle and has a backend call in flight;
\* the one mutex is held exactly while that call is in flight, and a request
\* that has issued its call and not yet answered holds it.
C3_MutualExclusion ==
    /\ CountAt("calling") <= 1
    /\ srv.lock <=> CountAt("calling") = 1
    /\ \A r \in InFlight : (r.calls > 0 /\ r.pc # "responded") => r.pc = "calling"

\* C3 witness: one request holds the handle while another waits for it.
C3_Witness == CountAt("calling") = 1 /\ CountAt("blocked") >= 1

\* C4 (as claimed): a protected request that presents the cookie kept from
\* before the logout is answered 401 and makes no backend call.
C4_Claim ==
    \A r \in InFlight :
      (r.kind \in Protected /\ r.replay) =>
          (r.pc = "responded" /\ r.status = 401 /\ r.calls = 0)

\* C5 (as claimed): a client's session is marked authenticated only after a
\* login succeeded for it since its last logout, and only the response to a
\* successful login marks a session authenticated that was not.
C5_Claim ==
    /\ \A c \in Clients : jar[c] # 0 => phase[c] = "verified"
    /\ \A r \in InFlight :
         (r.setCookie = "set" /\ ~SessionAuthenticated(r)) =>
             (r.kind = "login" /\ r.status = 200)

\* C6 (as claimed): a login is answered 200 with the success body and the
\* session marked authenticated when the password verifies against the
\* stored hash, and 401 with an error body and the session unmarked otherwise.
C6_Claim ==
    \A r \in InFlight :
      r.kind = "login" =>
        IF verify_password(r.password, srv.apiCfg.password_hash)
        THEN r.status = 200 /\ r.body = "status: success" /\ r.setCookie = "set"
        ELSE r.status = 401 /\ r.body # "" /\ r.setCookie # "set"

BackendTypes == {"lnd-grpc", "lnd-rest", "cln"}

\* The section of settings that node type t selects.
SectionOf(settings, t) ==
    CASE t = "lnd-grpc" -> settings.lnd_grpc
      [] t = "lnd-rest" -> settings.lnd_rest
      [] t = "cln" -> settings.cln

\* The errors that say the selected backend's configuration is not there.
MissingConfigErrors ==
    {"LND gRPC config missing", "LND REST config missing", "CLN config missing",
     "lnd-grpc feature not enabled"}

\* C8: connect_from_config succeeds only for one of the three node types
\* whose own section is present, and the handle then wraps an adapter of that
\* type built from that section; any other node type fails as unsupported; a
\* selected type whose section is absent fails with a configuration error
\* whatever other sections are populated.
C8_FactoryOutcome ==
    (srv.pc # "connect" /\ configFile.settings # Malformed) =>
      LET st == configFile.settings
          t == st.node.node_type
      IN
      /\ srv.driver # None =>
           /\ srv.pc = "addr"
           /\ t \in BackendTypes
           /\ SectionOf(st, t) # None
           /\ srv.driver.kind = t
           /\ srv.driver.url = SectionOf(st, t).host
      /\ t \notin BackendTypes =>
           (srv.pc = "exited" /\ srv.exit = "Unsupported node type" /\ srv.driver = None)
      /\ (t \in BackendTypes /\ SectionOf(st, t) = None) =>
           (srv.pc = "exited" /\ srv.exit \in MissingConfigErrors /\ srv.driver = None)

\* C8 witness: lnd-rest is selected, its section is absent and the cln section
\* is populated; construction failed.
C8_Witness ==
    /\ srv.pc = "exited"
    /\ configFile.settings # Malformed
    /\ configFile.settings.node.node_type = "lnd-rest"
    /\ configFile.settings.lnd_rest = None
    /\ configFile.settings.cln # None

\* C9: main goes past connect_from_config, binds and serves only with the
\* handle built; a start whose construction failed has exited without a
\* handle and without having served a request.
C9_ServeAfterConnect ==
    /\ srv.pc \in {"addr", "key", "bind", "serving"} => srv.driver # None
    /\ (srv.served \/ req # EmptyBag) => srv.driver # None
    /\ req # EmptyBag => srv.pc = "serving"
    /\ srv.driver = None => (~srv.served /\ req = EmptyBag)
    /\ (srv.pc = "exited" /\ srv.exit \in MissingConfigErrors) =>
           (srv.driver = None /\ ~srv.served)

\* C9 witness: construction failed for a missing section and the process has
\* exited.
C9_Witness ==
    srv.pc = "exited" /\ srv.exit = "LND REST config missing" /\ ~srv.served

\* C10 (as claimed): once a start has generated session_key.bin, no start
\* fails on the key file, and a server past the key step uses the stored key.
C10_Claim ==
    (keyFile # NoFile /\ keyFile.key # 0) =>
        /\ srv.exit # "session_key.bin must be 32 bytes"
        /\ srv.key # 0 => srv.key = keyFile.key

\* ========================================================= lightning-client
\* The three adapters behind the LightningClient trait, each method a function
\* of the adapter, its arguments and the backend's reply to the request it
\* sends.  A result is Ok/Err with io the requests issued.

Some(x) == [some |-> x]

\* serde_json::Value as the adapters read it: null (also what indexing a
\* missing key or a non-object gives), a string, a number, an object.
JNull == [null |-> TRUE]
JStr(s) == [str |-> s]
JNum(n) == [num |-> n]
JObj(o) == [obj |-> o]

\* Value::index, Value::as_str, Value::as_u64, Value::as_bool.
Index(v, k) ==
    IF "obj" \in DOMAIN v /\ k \in DOMAIN v.obj THEN v.obj[k] ELSE JNull
as_str(v) == IF "str" \in DOMAIN v THEN Some(v.str) ELSE None
as_u64(v) == IF "num" \in DOMAIN v /\ v.num >= 0 THEN Some(v.num) ELSE None

\* What reqwest hands back: no response at all, or a status line and a body
\* that is JSON or not.  The adapters never call error_for_status.
Unreachable == [transport |-> "error"]
NotJson == [text |-> "<html>"]
NoReply == [noreply |-> TRUE]
HttpStatuses == {200, 500}
HttpReplies(bodies) ==
    {Unreachable} \cup [status : HttpStatuses, body : bodies \cup {NotJson, JNull}]

\* .send().await?.json().await?
ReadJson(reply) ==
    IF reply = Unreachable THEN Err("error sending request")
    ELSE IF reply.body = NotJson THEN Err("error decoding response body")
    ELSE Ok(reply.body)

HttpRequest(method, self, path, payload) ==
    [method |-> method, url |-> self.url \o path, macaroon |-> self.macaroon,
     payload |-> payload]

\* The result res of a method that issued request rq.
Sent(rq, res) == [res EXCEPT !.io = <<rq>>]

Bolt11s == {"lnbc10n1", "garbage"}

\* ------------------------------------------------------------ pay_invoice
\* A reading of the payment response that looks for the payment first and at
\* payment_error only when there is none (used to show that C11 depends on the
\* order of the checks).
LndRest_pay_result_lenient(res) ==
    LET hash == as_str(Index(res, "payment_hash"))
        amount_msat == as_u64(Index(res, "amount_msat"))
        err == as_str(Index(res, "payment_error"))
    IN
    IF hash # None /\ amount_msat # None
    THEN Ok([hash |-> hash.some, amount_msat |-> amount_msat.some,
             fee_msat |-> as_u64(Index(res, "fee_msat"))])
    ELSE IF err # None THEN Err("Payment failed: " \o err.some)
    ELSE Err("no payment_hash")

\* LndRestClient::pay_invoice from the parsed body on.
LndRest_pay_result(res) ==
    LET err == as_str(Index(res, "payment_error"))
        hash == as_str(Index(res, "payment_hash"))
        amount_msat == as_u64(Index(res, "amount_msat"))
    IN
    IF err # None THEN Err("Payment failed: " \o err.some)
    ELSE IF hash = None THEN Err("no payment_hash")
    ELSE IF amount_msat = None THEN Err("no amount_msat")
    ELSE Ok([hash |-> hash.some, amount_msat |-> amount_msat.some,
             fee_msat |-> as_u64(Index(res, "fee_msat"))])

LndRest_pay_invoice(self, bolt11, reply) ==
    LET rq == HttpRequest("POST", self, "/v1/sendpaymentsync",
                          [payment_request |-> bolt11])
        res == ReadJson(reply)
    IN Sent(rq, IF res.ok THEN LndRest_pay_result(res.val) ELSE res)

\* ClnClient::pay_invoice from the parsed body on.
Cln_pay_result(res) ==
    LET err == as_str(Index(res, "error"))
        hash == as_str(Index(res, "payment_hash"))
        amount_msat == as_u64(Index(res, "amount_sent_msat"))
    IN
    IF err # None THEN Err("Payment failed: " \o err.some)
    ELSE IF hash = None THEN Err("no payment_hash")
    ELSE IF amount_msat = None THEN Err("no amount_sent_msat")
    ELSE Ok([hash |-> hash.some, amount_msat |-> amount_msat.some,
             fee_msat |-> as_u64(Index(res, "total_fees_msats"))])

\* cln: the build's "cln" feature.
Cln_pay_invoice(self, bolt11, reply, cln) ==
    IF ~cln THEN Err("CLN feature not enabled")
    ELSE LET rq == HttpRequest("POST", self, "/v1/pay", [bolt11 |-> bolt11])
             res == ReadJson(reply)
         IN Sent(rq, IF res.ok THEN Cln_pay_result(res.val) ELSE res)

\* A pay_invoice that hands the invoice to the node all the same (used to show
\* that C14 depends on the method refusing).
LndGrpc_pay_invoice_attempt(self, bolt11) ==
    Sent([method |-> "SendPaymentSync", url |-> self.url,
          macaroon |-> self.macaroon, payload |-> [payment_request |-> bolt11]],
         Err("pay_invoice not implemented in this gRPC binding version"))

\* LndGrpcWrapper::pay_invoice; the wrapper exists only in a build with the
\* lnd-grpc feature.
LndGrpc_pay_invoice(self, bolt11) ==
    Err("pay_invoice not implemented in this gRPC binding version")

\* The reply bodies of the payment endpoints.
LndRestPayBodies ==
    {JObj(o) : o \in [payment_error : {JNull, JStr(""), JStr("no_route")},
                      payment_hash : {JNull, JStr("ab12")},
                      amount_msat : {JNull, JNum(1000), JStr("1000")},
                      fee_msat : {JNull, JNum(1)}]}
ClnPayBodies ==
    {JObj(o) : o \in [error : {JNull, JStr("no route"), JNum(205),
                               JObj([code |-> 205])},
                      payment_hash : {JNull, JStr("ab12")},
                      amount_sent_msat : {JNull, JNum(1000)},
                      total_fees_msats : {JNull, JNum(1)}]}

\* --------------------------------------------------------- decode_invoice
\* LndRestClient::decode_invoice.
LndRest_decode_invoice(self, bolt11, reply) ==
    LET rq == HttpRequest("POST", self, "/v1/payreq", [pay_req |-> bolt11])
        res == ReadJson(reply)
    IN
    IF ~res.ok THEN Sent(rq, res)
    ELSE LET n == as_u64(Index(res.val, "num_satoshis"))
             num_sat == IF n = None THEN 0 ELSE n.some
         IN Sent(rq, Ok([amount_msat |-> IF num_sat = 0 THEN None
                                         ELSE Some(num_sat * 1000),
                         desc |-> as_str(Index(res.val, "description")),
                         payee |-> as_str(Index(res.val, "destination"))]))

\* ClnClient::decode_invoice.
Cln_decode_invoice(self, bolt11, reply, cln) ==
    IF ~cln THEN Err("CLN feature not enabled")
    ELSE LET rq == HttpRequest("POST", self, "/v1/decodepay", [bolt11 |-> bolt11])
             res == ReadJson(reply)
         IN
         IF ~res.ok THEN Sent(rq, res)
         ELSE Sent(rq, Ok([amount_msat |-> as_u64(Index(res.val, "msatoshi")),
                           desc |-> as_str(Index(res.val, "description")),
                           payee |-> as_str(Index(res.val, "payee"))]))

\* LndGrpcWrapper::decode_invoice.
LndGrpc_decode_invoice(self, bolt11) ==
    Err("decode_invoice not implemented in this gRPC binding version")

\* What the nodes answer to a string they do not recognize as an invoice.
LndRestErrorBody == JObj([code |-> JNum(3), message |-> JStr("invalid bech32")])
ClnErrorBody == JObj([error |-> JObj([code |-> JNum(205)])])

\* The reply bodies of the decode endpoints.
LndRestDecodeBodies ==
    {LndRestErrorBody} \cup
    {JObj(o) : o \in [num_satoshis : {JNull, JNum(0), JNum(10), JStr("10")},
                      description : {JNull, JStr("coffee")},
                      destination : {JNull, JStr("02ab")}]}
ClnDecodeBodies ==
    {ClnErrorBody} \cup
    {JObj(o) : o \in [msatoshi : {JNull, JNum(10000)},
                      description : {JNull, JStr("coffee")},
                      payee : {JNull, JStr("02ab")}]}

\* --------------------------------------------------------- create_invoice
\* format!("{}", n) of an integer: its decimal digits, "-" first if negative.
RECURSIVE DisplayNat(_)
DisplayNat(n) ==
    LET digit == <<"0", "1", "2", "3", "4", "5", "6", "7", "8", "9">>[(n % 10) + 1]
    IN IF n < 10 THEN digit ELSE DisplayNat(n \div 10) \o digit

Display(n) == IF n < 0 THEN "-" \o DisplayNat(-n) ELSE DisplayNat(n)

\* Option::unwrap_or.
unwrap_or(opt, default) == IF opt = None THEN default ELSE opt.some

\* tonic answers a gRPC call with an error status or with the response
\* message; a failed call is the same Unreachable as for HTTP.
GrpcRequest(method, self, message) ==
    [method |-> method, url |-> self.url, macaroon |-> self.macaroon,
     payload |-> message]

\* LndRestClient::create_invoice.
LndRest_create_invoice(self, msat, label, desc, reply) ==
    LET rq == HttpRequest("POST", self, "/v1/invoices",
                  [value_msat |-> msat, memo |-> unwrap_or(desc, "rust")])
        res == ReadJson(reply)
    IN
    IF ~res.ok THEN Sent(rq, res)
    ELSE LET pr == as_str(Index(res.val, "payment_request")) IN
         Sent(rq, IF pr = None THEN Err("no payment_request") ELSE Ok(pr.some))

\* ClnClient::create_invoice; now: Utc::now().timestamp() at the call.
Cln_create_invoice(self, msat, label, desc, now, reply, cln) ==
    IF ~cln THEN Err("CLN feature not enabled")
    ELSE LET default_label == "rust-" \o Display(now)
             rq == HttpRequest("POST", self, "/v1/invoice",
                       [msatoshi |-> msat, label |-> default_label,
                        description |-> unwrap_or(desc, "rust")])
             res == ReadJson(reply)
         IN
         IF ~res.ok THEN Sent(rq, res)
         ELSE LET b == as_str(Index(res.val, "bolt11")) IN
              Sent(rq, IF b = None THEN Err("no bolt11") ELSE Ok(b.some))

\* LndGrpcWrapper::create_invoice; the amounts of the model are below 2^63,
\* where the cast of msat to i64 keeps the value.
LndGrpc_create_invoice(self, msat, label, desc, reply) ==
    LET rq == GrpcRequest("AddInvoice", self,
                  [value_msat |-> msat, memo |-> unwrap_or(desc, "rust")])
    IN
    IF reply = Unreachable THEN Sent(rq, Err("status: Unavailable"))
    ELSE Sent(rq, Ok(reply.payment_request))

Labels == {None, Some("order-7")}
Descriptions == {None, Some("coffee")}
Timestamps == {1700000000, 1700000001}

\* The reply bodies of the invoice endpoints.
LndRestInvoiceBodies ==
    {LndRestErrorBody} \cup
    {JObj(o) : o \in [payment_request : {JNull, JStr("lnbc10n1")}]}
ClnInvoiceBodies ==
    {ClnErrorBody} \cup {JObj(o) : o \in [bolt11 : {JNull, JStr("lnbc10n1")}]}
AddInvoiceResponses == [payment_request : {"lnbc10n1", ""}]

\* --------------------------------------------------------------- get_info
\* LndRestClient::get_info.
LndRest_get_info(self, reply) ==
    LET rq == HttpRequest("GET", self, "/v1/getinfo", None)
        res == ReadJson(reply)
    IN
    IF ~res.ok THEN Sent(rq, res)
    ELSE Sent(rq, Ok([alias |-> unwrap_or(as_str(Index(res.val, "alias")), "LND"),
                      identity_pubkey |->
                          unwrap_or(as_str(Index(res.val, "identity_pubkey")),
                                    "unknown")]))

\* ClnClient::get_info (compiled with or without the cln feature).
Cln_get_info(self, reply) ==
    LET rq == HttpRequest("GET", self, "/v1/getinfo", None)
        res == ReadJson(reply)
    IN
    IF ~res.ok THEN Sent(rq, res)
    ELSE Sent(rq, Ok([alias |-> unwrap_or(as_str(Index(res.val, "alias")), "CLN"),
                      identity_pubkey |->
                          unwrap_or(as_str(Index(res.val, "id")), "unknown")]))

\* LndGrpcWrapper::get_info.
LndGrpc_get_info(self, reply) ==
    LET rq == GrpcRequest("GetInfo", self, None) IN
    IF reply = Unreachable THEN Sent(rq, Err("status: Unavailable"))
    ELSE Sent(rq, Ok([alias |-> reply.alias,
                      identity_pubkey |-> reply.identity_pubkey]))

\* The reply bodies of the getinfo endpoints.
LndRestInfoBodies ==
    {LndRestErrorBody} \cup
    {JObj(o) : o \in [alias : {JNull, JStr("alice")},
                      identity_pubkey : {JNull, JStr("02ab")}]}
ClnInfoBodies ==
    {ClnErrorBody} \cup
    {JObj(o) : o \in [alias : {JNull, JStr("alice")}, id : {JNull, JStr("02ab")}]}
GetInfoResponses == [alias : {"alice", ""}, identity_pubkey : {"02ab"}]

\* ---------------------------------------------------------- list_invoices
MaxInvoices == 2
MaxStateCode == 7

JArr(s) == [arr |-> s]
JBool(b) == [bool |-> b]
\* A JSON number of 2^31 or more, as its four 16-bit limbs, most significant
\* first.
JBig(limbs) == [big |-> limbs]

as_array(v) == IF "arr" \in DOMAIN v THEN Some(v.arr) ELSE None
as_bool(v) == IF "bool" \in DOMAIN v THEN Some(v.bool) ELSE None

\* Value::as_u64 with the u64 in 16-bit limbs, most significant first.
as_u64_limbs(v) ==
    IF "big" \in DOMAIN v THEN Some(v.big)
    ELSE IF "num" \in DOMAIN v /\ v.num >= 0
         THEN Some(<<0, 0, v.num \div 65536, v.num % 65536>>)
    ELSE None

\* u64 as u32: the low 32 bits.
AsU32(limbs) == <<limbs[3], limbs[4]>>

\* hex::encode.
RECURSIVE hex_encode(_)
hex_encode(bytes) ==
    LET digits == <<"0", "1", "2", "3", "4", "5", "6", "7", "8", "9",
                    "a", "b", "c", "d", "e", "f">>
    IN IF bytes = <<>> THEN ""
       ELSE digits[(Head(bytes) \div 16) + 1] \o digits[(Head(bytes) % 16) + 1]
            \o hex_encode(Tail(bytes))

SeqsUpTo(S, n) == UNION {[1..k -> S] : k \in 0..n}

\* A state mapping that does not keep the unexpected code (used to show that
\* C19 depends on the code being formatted into the string).
LndGrpc_invoice_state_plain(code) ==
    CASE code = 0 -> "open"
      [] code = 1 -> "settled"
      [] code = 2 -> "canceled"
      [] code = 3 -> "accepted"
      [] OTHER -> "unknown"

\* LndGrpcWrapper::list_invoices: the match on inv.state (an i32).
LndGrpc_invoice_state(code) ==
    CASE code = 0 -> "open"
      [] code = 1 -> "settled"
      [] code = 2 -> "canceled"
      [] code = 3 -> "accepted"
      [] OTHER -> "unknown: " \o Display(code)

\* LndGrpcWrapper::list_invoices.
LndGrpc_list_invoices(self, limit, reply) ==
    LET rq == GrpcRequest("ListInvoices", self,
                  [num_max_invoices |-> unwrap_or(limit, 10)])
    IN
    IF reply = Unreachable THEN Sent(rq, Err("status: Unavailable"))
    ELSE Sent(rq, Ok([i \in 1..Len(reply.invoices) |->
           LET inv == reply.invoices[i] IN
           [hash |-> hex_encode(inv.r_hash),
            amount_msat |-> IF inv.value_msat > 0 THEN inv.value_msat ELSE 0,
            state |-> LndGrpc_invoice_state(inv.state),
            bolt11 |-> IF inv.payment_request = "" THEN None
                       ELSE Some(inv.payment_request),
            desc |-> IF inv.memo = "" THEN None ELSE Some(inv.memo)]]))

\* ClnClient::list_invoices: the match on state_num (a u32).
Cln_invoice_state(state_num) ==
    CASE state_num = <<0, 0>> -> "unpaid"
      [] state_num = <<0, 1>> -> "paid"
      [] state_num = <<0, 2>> -> "expired"
      [] OTHER -> "unknown"

\* ClnClient::list_invoices.
Cln_list_invoices(self, limit, reply, cln) ==
    IF ~cln THEN Err("CLN feature not enabled")
    ELSE LET rq == HttpRequest("POST", self, "/v1/listinvoices",
                       [count |-> unwrap_or(limit, 10)])
             res == ReadJson(reply)
         IN
         IF ~res.ok THEN Sent(rq, res)
         ELSE LET inv_list == unwrap_or(as_array(Index(res.val, "invoices")), <<>>)
              IN
              Sent(rq, Ok([i \in 1..Len(inv_list) |->
                LET inv == inv_list[i]
                    state_num == AsU32(unwrap_or(as_u64_limbs(Index(inv, "state")),
                                                 <<0, 0, 0, 0>>))
                IN
                [hash |-> unwrap_or(as_str(Index(inv, "payment_hash")), ""),
                 amount_msat |->
                     unwrap_or(as_u64(Index(inv, "msatoshi_received")), 0),
                 state |-> Cln_invoice_state(state_num),
                 bolt11 |-> as_str(Index(inv, "bolt11")),
                 desc |-> None]]))

\* LndRestClient::list_invoices.
LndRest_list_invoices(self, limit, reply) ==
    LET rq == HttpRequest("GET", self,
                  "/v1/invoices?num_max_invoices=" \o Display(unwrap_or(limit, 10)),
                  None)
        res == ReadJson(reply)
    IN
    IF ~res.ok THEN Sent(rq, res)
    ELSE LET inv_list == unwrap_or(as_array(Index(res.val, "invoices")), <<>>)
         IN
         Sent(rq, Ok([i \in 1..Len(inv_list) |->
           LET inv == inv_list[i]
               memo == as_str(Index(inv, "memo"))
           IN
           [hash |-> unwrap_or(as_str(Index(inv, "r_hash")), ""),
            amount_msat |-> unwrap_or(as_u64(Index(inv, "value_msat")), 0),
            state |-> IF unwrap_or(as_bool(Index(inv, "settled")), FALSE)
                      THEN "paid" ELSE "unpaid",
            bolt11 |-> as_str(Index(inv, "payment_request")),
            desc |-> IF memo = None \/ memo = Some("") THEN None ELSE memo]]))

\* The invoice states a node can send: the codes around the known ones and
\* the largest i32.
StateCodes == (-MaxStateCode .. MaxStateCode) \cup {2147483647, -2147483647}

\* The invoices in the replies of the list endpoints.
GrpcInvoices ==
    {[state |-> c, r_hash |-> <<171, 18>>, value_msat |-> 1000,
      payment_request |-> "lnbc10n1", memo |-> "coffee"] : c \in StateCodes}
    \cup {[state |-> 0, r_hash |-> <<>>, value_msat |-> -1,
           payment_request |-> "", memo |-> ""]}

\* 2^32, 2^32 + 1, 2^32 + 2, 2^32 - 1 and 2^48 + 2.
BigStateCodes ==
    {<<0, 1, 0, 0>>, <<0, 1, 0, 1>>, <<0, 1, 0, 2>>, <<0, 0, 65535, 65535>>,
     <<1, 0, 0, 2>>}

ClnInvoices ==
    {JObj([state |-> s, payment_hash |-> JStr("ab12"),
           msatoshi_received |-> JNum(1000), bolt11 |-> JStr("lnbc10n1")]) :
       s \in {JNum(c) : c \in 0..MaxStateCode} \cup {JBig(l) : l \in BigStateCodes}
             \cup {JNull, JStr("paid")}}

LndRestInvoices ==
    {JObj([r_hash |-> JStr("qxI="), value_msat |-> v, settled |-> s,
           payment_request |-> JStr("lnbc10n1"), memo |-> memo]) :
       v \in {JNum(1000), JStr("1000")}, s \in {JNull, JBool(TRUE), JBool(FALSE)},
       memo \in {JStr(""), JStr("coffee")}}

ListBodies(items) ==
    {JObj([invoices |-> JArr(s)]) : s \in SeqsUpTo(items, MaxInvoices)}

\* ------------------------------------------------------------ get_balance
MaxOutputs == 2

\* u64 arithmetic on 16-bit limbs, most significant first.
U64Zero == <<0, 0, 0, 0>>

\* limbs * k for k below 2^15: the low 64 bits and whether the product has
\* more.
MulU64(limbs, k) ==
    LET p4 == limbs[4] * k
        p3 == limbs[3] * k + p4 \div 65536
        p2 == limbs[2] * k + p3 \div 65536
        p1 == limbs[1] * k + p2 \div 65536
    IN [val |-> <<p1 % 65536, p2 % 65536, p3 % 65536, p4 % 65536>>,
        overflow |-> p1 \div 65536 > 0]

\* LndGrpcWrapper::get_balance: channel_msat from ChannelBalanceResponse's
\* local_balance (lnrpc Amount: sat and msat are u64).  checks: is the build
\* one with overflow checks (debug) or not (release); an overflowing product
\* panics in the first and wraps in the second.
LndGrpc_channel_msat(local_balance, checks) ==
    IF local_balance = None THEN Ok(U64Zero)
    ELSE LET amount == local_balance.some IN
         IF amount.msat # U64Zero THEN Ok(amount.msat)
         ELSE LET p == MulU64(amount.sat, 1000) IN
              IF p.overflow /\ checks
              THEN Err("panic: attempt to multiply with overflow")
              ELSE Ok(p.val)

\* LndGrpcWrapper::get_balance; reply: the replies to WalletBalance and to
\* ChannelBalance.  confirmed_balance is an i64 in two's complement limbs,
\* which the cast to u64 reinterprets.
LndGrpc_get_balance(self, reply, checks) ==
    LET rq1 == GrpcRequest("WalletBalance", self, [account |-> "", min_confs |-> 1])
        rq2 == GrpcRequest("ChannelBalance", self, None)
    IN
    IF reply.wallet = Unreachable
    THEN [Err("status: Unavailable") EXCEPT !.io = <<rq1>>]
    ELSE IF reply.channel = Unreachable
    THEN [Err("status: Unavailable") EXCEPT !.io = <<rq1, rq2>>]
    ELSE LET channel_msat == LndGrpc_channel_msat(reply.channel.local_balance, checks)
         IN
         IF ~channel_msat.ok THEN [channel_msat EXCEPT !.io = <<rq1, rq2>>]
         ELSE [Ok([onchain_sat |-> reply.wallet.confirmed_balance,
                   channel_msat |-> channel_msat.val])
                  EXCEPT !.io = <<rq1, rq2>>]

\* LndRestClient::get_balance.
LndRest_get_balance(self, reply) ==
    LET rq1 == HttpRequest("GET", self, "/v1/balance/wallet", None)
        rq2 == HttpRequest("GET", self, "/v1/balance/channels", None)
        wallet_res == ReadJson(reply.wallet)
        chan_res == ReadJson(reply.channel)
    IN
    IF ~wallet_res.ok THEN [wallet_res EXCEPT !.io = <<rq1>>]
    ELSE IF ~chan_res.ok THEN [chan_res EXCEPT !.io = <<rq1, rq2>>]
    ELSE [Ok([onchain_sat |->
                  unwrap_or(as_u64(Index(wallet_res.val, "confirmed_balance")), 0),
              channel_msat |->
                  unwrap_or(as_u64(Index(chan_res.val, "local_balance")), 0)])
             EXCEPT !.io = <<rq1, rq2>>]

\* The sum a loop of ClnClient::get_balance accumulates over the amounts it
\* meets (None: an entry that does not count).
RECURSIVE SumSome(_)
SumSome(amounts) ==
    IF amounts = <<>> THEN 0
    ELSE (IF Head(amounts) = None THEN 0 ELSE Head(amounts).some)
         + SumSome(Tail(amounts))

RECURSIVE Cln_onchain_sat_per_output(_)
\* An on-chain balance that converts each output to satoshis before adding
\* (used to show that C22 depends on the division being applied to the sum).
Cln_onchain_sat_per_output(outputs) ==
    IF outputs = <<>> THEN 0
    ELSE LET msat == as_u64(Index(Head(outputs), "msatoshi")) IN
         (IF as_str(Index(Head(outputs), "status")) = Some("confirmed") /\ msat # None
          THEN msat.some \div 1000 ELSE 0)
         + Cln_onchain_sat_per_output(Tail(outputs))

\* ClnClient::get_balance: onchain_sat from the outputs of listfunds.  The
\* amounts of the model are far below 2^64, where += does not overflow.
Cln_onchain_sat(outputs) ==
    SumSome([i \in 1..Len(outputs) |->
               IF as_str(Index(outputs[i], "status")) = Some("confirmed")
               THEN as_u64(Index(outputs[i], "msatoshi")) ELSE None]) \div 1000

\* ClnClient::get_balance (compiled with or without the cln feature).
Cln_get_balance(self, reply) ==
    LET rq == HttpRequest("POST", self, "/v1/listfunds", <<>>)
        res == ReadJson(reply)
    IN
    IF ~res.ok THEN Sent(rq, res)
    ELSE LET outputs == unwrap_or(as_array(Index(res.val, "outputs")), <<>>)
             chans == unwrap_or(as_array(Index(res.val, "channels")), <<>>)
         IN Sent(rq, Ok([onchain_sat |-> Cln_onchain_sat(outputs),
                         channel_msat |->
                             SumSome([i \in 1..Len(chans) |->
                                 as_u64(Index(chans[i], "our_msatoshi"))])]))

\* 0, 5, 2^32 + 5, floor((2^64 - 1) / 1000), that plus one, and 2^64 - 1.
U64Values ==
    {U64Zero, <<0, 0, 0, 5>>, <<0, 1, 0, 5>>, <<65, 35127, 19398, 42991>>,
     <<65, 35127, 19398, 42992>>, <<65535, 65535, 65535, 65535>>}
\* 0, 100000 and -1 as i64.
I64Values == {U64Zero, <<0, 0, 1, 34464>>, <<65535, 65535, 65535, 65535>>}

\* The replies to the balance calls.
WalletBalanceResponses == [confirmed_balance : I64Values]
ChannelBalanceResponses ==
    [local_balance : {None} \cup {Some(a) : a \in [sat : U64Values, msat : U64Values]}]
LndRestWalletBodies ==
    {LndRestErrorBody, JObj([confirmed_balance |-> JNum(100000)]),
     JObj([confirmed_balance |-> JStr("100000")])}
LndRestChannelBodies ==
    {LndRestErrorBody, JObj([local_balance |-> JNum(700)])}
ClnOutputs ==
    {JObj([status |-> JStr("confirmed"), msatoshi |-> JNum(1500)]),
     JObj([status |-> JStr("confirmed"), msatoshi |-> JNum(2500)]),
     JObj([status |-> JStr("unconfirmed"), msatoshi |-> JNum(1500)]),
     JObj([status |-> JStr("confirmed"), msatoshi |-> JNull])}
ClnChannels ==
    {JObj([our_msatoshi |-> JNum(700)]), JObj([our_msatoshi |-> JNum(300)]),
     JObj([our_msatoshi |-> JNull])}
ClnFundsBodies ==
    {ClnErrorBody} \cup
    {JObj([outputs |-> JArr(o), channels |-> JArr(c)]) :
       o \in SeqsUpTo(ClnOutputs, MaxOutputs), c \in SeqsUpTo(ClnChannels, MaxOutputs)}

\* ======================================== the adapters as a state machine
\* One adapter is constructed and its trait methods are called one at a time
\* in any order, each call answered by any reply its backend can give.
gatewayVars ==
    <<configFile, keyFile, feature, srv, req, jar, phase, retained, starts>>

InitAdapters ==
    /\ configFile = [api |-> None, settings |-> Malformed]
    /\ keyFile = NoFile
    /\ feature \in BOOLEAN
    /\ srv = InitSrv
    /\ req = EmptyBag
    /\ jar = [c \in Clients |-> 0]
    /\ phase = [c \in Clients |-> "fresh"]
    /\ retained = [c \in Clients |-> {}]
    /\ starts = 1
    /\ clnFeature \in BOOLEAN
    /\ adapter = None
    /\ last = NoCall

Hosts == {"https://node:8080", ""}
MacaroonHexes == {"0a0b", "zz", ""}
CertPaths == {"tls.cert", "missing.pem", "", "  "}

\* The record of a call: a reply is recorded only if a request was issued.
Called(op, args, reply, res) ==
    [op |-> op, args |-> args,
     reply |-> IF res.io = <<>> THEN NoReply ELSE reply, res |-> res]

\* The handle is behind a mutex: a method is called when the adapter exists
\* and the caller of the previous method has taken its result.
Ready == adapter # None /\ last.op \in {"new", "idle"}

\* One of the three constructors, as connect_from_config calls them.
Construct ==
    /\ adapter = None
    /\ last = NoCall
    /\ \E kind \in BackendTypes, host \in Hosts, mac \in MacaroonHexes,
          cert \in CertPaths, net \in BOOLEAN :
         LET res == CASE kind = "lnd-rest" -> LndRestClient_new(host, mac, cert)
                      [] kind = "lnd-grpc" ->
                           LndGrpcWrapper_connect("", mac, host, net)
                      [] kind = "cln" -> ClnClient_new(host)
         IN
         /\ kind = "lnd-grpc" => feature
         /\ adapter' = res.val
         /\ last' = Called("new",
                [kind |-> kind, host |-> host, macaroon_hex |-> mac,
                 cert_path |-> IF kind = "lnd-rest" THEN cert ELSE ""],
                NoReply, res)
    /\ UNCHANGED <<gatewayVars, clnFeature>>

\* LightningClient::pay_invoice on the adapter behind the trait object.
pay_invoice(self, bolt11, reply, cln) ==
    CASE self.kind = "lnd-rest" -> LndRest_pay_invoice(self, bolt11, reply)
      [] self.kind = "cln" -> Cln_pay_invoice(self, bolt11, reply, cln)
      [] self.kind = "lnd-grpc" -> LndGrpc_pay_invoice(self, bolt11)

PayReplies(kind) ==
    CASE kind = "lnd-rest" -> HttpReplies(LndRestPayBodies)
      [] kind = "cln" -> HttpReplies(ClnPayBodies)
      [] kind = "lnd-grpc" -> {NoReply}

Call_pay_invoice ==
    /\ Ready
    /\ \E bolt11 \in Bolt11s, reply \in PayReplies(adapter.kind) :
         last' = Called("pay_invoice", [bolt11 |-> bolt11], reply,
                        pay_invoice(adapter, bolt11, reply, clnFeature))
    /\ UNCHANGED <<gatewayVars, clnFeature, adapter>>

\* LightningClient::decode_invoice on the adapter behind the trait object.
decode_invoice(self, bolt11, reply, cln) ==
    CASE self.kind = "lnd-rest" -> LndRest_decode_invoice(self, bolt11, reply)
      [] self.kind = "cln" -> Cln_decode_invoice(self, bolt11, reply, cln)
      [] self.kind = "lnd-grpc" -> LndGrpc_decode_invoice(self, bolt11)

DecodeReplies(kind) ==
    CASE kind = "lnd-rest" -> HttpReplies(LndRestDecodeBodies)
      [] kind = "cln" -> HttpReplies(ClnDecodeBodies)
      [] kind = "lnd-grpc" -> {NoReply}

Call_decode_invoice ==
    /\ Ready
    /\ \E bolt11 \in Bolt11s, reply \in DecodeReplies(adapter.kind) :
         last' = Called("decode_invoice", [bolt11 |-> bolt11], reply,
                        decode_invoice(adapter, bolt11, reply, clnFeature))
    /\ UNCHANGED <<gatewayVars, clnFeature, adapter>>

\* LightningClient::create_invoice on the adapter behind the trait object.
create_invoice(self, msat, label, desc, now, reply, cln) ==
    CASE self.kind = "lnd-rest" ->
           LndRest_create_invoice(self, msat, label, desc, reply)
      [] self.kind = "cln" ->
           Cln_create_invoice(self, msat, label, desc, now, reply, cln)
      [] self.kind = "lnd-grpc" ->
           LndGrpc_create_invoice(self, msat, label, desc, reply)

InvoiceReplies(kind) ==
    CASE kind = "lnd-rest" -> HttpReplies(LndRestInvoiceBodies)
      [] kind = "cln" -> HttpReplies(ClnInvoiceBodies)
      [] kind = "lnd-grpc" -> {Unreachable} \cup AddInvoiceResponses

Call_create_invoice ==
    /\ Ready
    /\ \E msat \in {1000}, label \in Labels, desc \in Descriptions,
          now \in Timestamps, reply \in InvoiceReplies(adapter.kind) :
         last' = Called("create_invoice",
                    [msat |-> msat, label |-> label, desc |-> desc], reply,
                    create_invoice(adapter, msat, label, desc, now, reply,
                                   clnFeature))
    /\ UNCHANGED <<gatewayVars, clnFeature, adapter>>

\* LightningClient::get_info on the adapter behind the trait object.
get_info(self, reply) ==
    CASE self.kind = "lnd-rest" -> LndRest_get_info(self, reply)
      [] self.kind = "cln" -> Cln_get_info(self, reply)
      [] self.kind = "lnd-grpc" -> LndGrpc_get_info(self, reply)

InfoReplies(kind) ==
    CASE kind = "lnd-rest" -> HttpReplies(LndRestInfoBodies)
      [] kind = "cln" -> HttpReplies(ClnInfoBodies)
      [] kind = "lnd-grpc" -> {Unreachable} \cup GetInfoResponses

Call_get_info ==
    /\ Ready
    /\ \E reply \in InfoReplies(adapter.kind) :
         last' = Called("get_info", None, reply, get_info(adapter, reply))
    /\ UNCHANGED <<gatewayVars, clnFeature, adapter>>

\* LightningClient::list_invoices on the adapter behind the trait object.
list_invoices(self, limit, reply, cln) ==
    CASE self.kind = "lnd-rest" -> LndRest_list_invoices(self, limit, reply)
      [] self.kind = "cln" -> Cln_list_invoices(self, limit, reply, cln)
      [] self.kind = "lnd-grpc" -> LndGrpc_list_invoices(self, limit, reply)

ListReplies(kind) ==
    CASE kind = "lnd-rest" -> HttpReplies(ListBodies(LndRestInvoices))
      [] kind = "cln" -> HttpReplies(ListBodies(ClnInvoices))
      [] kind = "lnd-grpc" ->
           {Unreachable} \cup [invoices : SeqsUpTo(GrpcInvoices, MaxInvoices)]

Call_list_invoices ==
    /\ Ready
    /\ \E limit \in {None, Some(5)}, reply \in ListReplies(adapter.kind) :
         last' = Called("list_invoices", [limit |-> limit], reply,
                        list_invoices(adapter, limit, reply, clnFeature))
    /\ UNCHANGED <<gatewayVars, clnFeature, adapter>>

\* LightningClient::get_balance on the adapter behind the trait object.
get_balance(self, reply, checks) ==
    CASE self.kind = "lnd-rest" -> LndRest_get_balance(self, reply)
      [] self.kind = "cln" -> Cln_get_balance(self, reply)
      [] self.kind = "lnd-grpc" -> LndGrpc_get_balance(self, reply, checks)

BalanceReplies(kind) ==
    CASE kind = "lnd-rest" ->
           [wallet : HttpReplies(LndRestWalletBodies),
            channel : HttpReplies(LndRestChannelBodies)]
      [] kind = "cln" -> HttpReplies(ClnFundsBodies)
      [] kind = "lnd-grpc" ->
           [wallet : {Unreachable} \cup WalletBalanceResponses,
            channel : {Unreachable} \cup ChannelBalanceResponses]

Call_get_balance ==
    /\ Ready
    /\ \E reply \in BalanceReplies(adapter.kind), checks \in BOOLEAN :
         last' = Called("get_balance", None, reply,
                        get_balance(adapter, reply, checks))
    /\ UNCHANGED <<gatewayVars, clnFeature, adapter>>

\* The caller matches on the Result and drops it.
Consume ==
    /\ adapter # None
    /\ last.op \notin {"none", "new", "idle"}
    /\ last' = [op |-> "idle"]
    /\ UNCHANGED <<gatewayVars, clnFeature, adapter>>

NextAdapters ==
    \/ Construct
    \/ Consume
    \/ Call_pay_invoice
    \/ Call_decode_invoice
    \/ Call_create_invoice
    \/ Call_get_info
    \/ Call_list_invoices
    \/ Call_get_balance

SpecAdapters == InitAdapters /\ [][NextAdapters]_vars

\* ------------------------------------------------- claims on the adapters
\* The last call was method op on an adapter of the given kind and the backend
\* answered it with a JSON body.
Answered(op, kind) ==
    /\ last.op = op
    /\ adapter # None
    /\ adapter.kind = kind
    /\ "body" \in DOMAIN last.reply
    /\ last.reply.body # NotJson

\* The result is the adapter's payment failure carrying reason.
PaymentFailed(res, reason) ==
    ~res.ok /\ res.val = None /\ res.err = "Payment failed: " \o reason

\* C11: LndRest pay_invoice answers a body whose payment_error is a non-empty
\* string with the payment failure carrying that string, whatever else the
\* body holds, and the same body gives the same result under every HTTP
\* status.
C11_PaymentErrorFails ==
    Answered("pay_invoice", "lnd-rest") =>
      LET e == as_str(Index(last.reply.body, "payment_error")) IN
      /\ (e # None /\ e.some # "") => PaymentFailed(last.res, e.some)
      /\ \A s \in HttpStatuses :
           LndRest_pay_invoice(adapter, last.args.bolt11,
               [status |-> s, body |-> last.reply.body]) = last.res

\* C11 witness: HTTP 200, payment_error "no_route" next to a payment hash and
\* an amount; the call failed.
C11_Witness ==
    /\ Answered("pay_invoice", "lnd-rest")
    /\ last.reply.status = 200
    /\ Index(last.reply.body, "payment_error") = JStr("no_route")
    /\ Index(last.reply.body, "payment_hash") = JStr("ab12")
    /\ Index(last.reply.body, "amount_msat") = JNum(1000)
    /\ ~last.res.ok

\* C12 (as claimed): LndRest pay_invoice answers a body whose payment_error is
\* absent or the empty string, and whose payment_hash and amount_msat are
\* present, with a successful PaymentResult of that hash and amount.
C12_Claim ==
    Answered("pay_invoice", "lnd-rest") =>
      LET body == last.reply.body
          hash == as_str(Index(body, "payment_hash"))
          amount_msat == as_u64(Index(body, "amount_msat"))
      IN
      (/\ Index(body, "payment_error") \in {JNull, JStr("")}
       /\ hash # None
       /\ amount_msat # None) =>
         /\ last.res.ok
         /\ last.res.val.hash = hash.some
         /\ last.res.val.amount_msat = amount_msat.some

\* The errors of ClnClient::pay_invoice for a response that lacks a required
\* field.
ClnPayProtocolErrors == {"no payment_hash", "no amount_sent_msat"}

\* C13 (as claimed): Cln pay_invoice fails as a payment failure whenever the
\* body's error field is not null, whatever its JSON type; with a null error
\* it succeeds exactly when payment_hash and amount_sent_msat are both
\* present, and is a protocol error otherwise.
C13_Claim ==
    Answered("pay_invoice", "cln") =>
      LET body == last.reply.body
          present == /\ as_str(Index(body, "payment_hash")) # None
                     /\ as_u64(Index(body, "amount_sent_msat")) # None
      IN
      IF Index(body, "error") # JNull
      THEN ~last.res.ok /\ last.res.err \notin ClnPayProtocolErrors
      ELSE IF present THEN last.res.ok
      ELSE ~last.res.ok /\ last.res.err \in ClnPayProtocolErrors

\* The errors with which the gRPC wrapper refuses the two methods its binding
\* lacks.
UnsupportedError ==
    [decode_invoice |-> "decode_invoice not implemented in this gRPC binding version",
     pay_invoice |-> "pay_invoice not implemented in this gRPC binding version"]

\* C14: on the LndGrpc adapter decode_invoice and pay_invoice fail with the
\* method's "not implemented" error for every argument and every adapter,
\* issue no request, and leave the adapter as it was.
C14_Unsupported ==
    /\ [](\A op \in DOMAIN UnsupportedError :
            (last.op = op /\ adapter # None /\ adapter.kind = "lnd-grpc") =>
               /\ ~last.res.ok
               /\ last.res.val = None
               /\ last.res.err = UnsupportedError[op]
               /\ last.res.io = <<>>
               /\ last.reply = NoReply)
    /\ [][(adapter # None /\ last'.op \in DOMAIN UnsupportedError)
             => adapter' = adapter]_vars

\* C14 witness: pay_invoice was called on a connected LndGrpc adapter.
C14_Witness ==
    /\ last.op = "pay_invoice"
    /\ adapter # None
    /\ adapter.kind = "lnd-grpc"
    /\ last.args.bolt11 = "lnbc10n1"
    /\ ~last.res.ok

\* C15: constructing the LndRest adapter with an empty or whitespace-only
\* cert_path fails with "cert_path is required" for every host and macaroon,
\* before any file is read or TLS client built; no adapter exists then, and
\* no method is ever called without an adapter.
C15_EmptyCertPath ==
    /\ (last.op = "new" /\ last.args.kind = "lnd-rest"
          /\ last.args.cert_path \in {"", "  "}) =>
         /\ ~last.res.ok
         /\ last.res.err = "cert_path is required"
         /\ last.res.io = <<>>
         /\ adapter = None
    /\ adapter = None => last.op \in {"none", "new"}

\* C15 witness: construction with a whitespace-only path and an undecodable
\* macaroon has failed.
C15_Witness ==
    /\ last.op = "new"
    /\ last.args.kind = "lnd-rest"
    /\ last.args.cert_path = "  "
    /\ last.args.macaroon_hex = "zz"
    /\ ~last.res.ok

\* The labels ClnClient::create_invoice makes up from the clock.
SynthesizedLabels == {"rust-" \o Display(t) : t \in Timestamps}

\* C16 (as claimed): the invoice request of the Cln adapter carries the
\* caller's label when one is given and a timestamp-derived label only when
\* none is; the requests of the LND adapters carry no label.
C16_Claim ==
    (last.op = "create_invoice" /\ last.res.io # <<>>) =>
      LET payload == last.res.io[1].payload IN
      IF adapter.kind = "cln"
      THEN IF last.args.label # None
           THEN payload.label = last.args.label.some
           ELSE payload.label \in SynthesizedLabels
      ELSE "label" \notin DOMAIN payload

\* The field of the getinfo body that holds the node's public key.
PubkeyField(kind) == IF kind = "cln" THEN "id" ELSE "identity_pubkey"

\* C17 (as claimed): on the LndRest and Cln adapters get_info fails when the
\* body lacks the alias or the public key, the gateway answers 500 for that
\* failure, and a NodeInfo returned carries the alias and key of the body.
C17_Claim ==
    \A kind \in {"lnd-rest", "cln"} :
      Answered("get_info", kind) =>
        LET alias == as_str(Index(last.reply.body, "alias"))
            pubkey == as_str(Index(last.reply.body, PubkeyField(kind)))
        IN
        /\ (alias = None \/ pubkey = None) =>
             /\ ~last.res.ok
             /\ BackendResponse("info", "err").status = 500
        /\ last.res.ok =>
             /\ alias # None /\ last.res.val.alias = alias.some
             /\ pubkey # None /\ last.res.val.identity_pubkey = pubkey.some

\* The fields of a decoded invoice in the reply of each backend.
DecodeFields(kind) ==
    IF kind = "cln" THEN {"msatoshi", "description", "payee"}
    ELSE {"num_satoshis", "description", "destination"}

\* C18 (as claimed): on the LndRest and Cln adapters decode_invoice fails when
\* the backend's reply holds none of the amount, description and payee fields
\* (an error object), and never returns a DecodedInvoice with every field
\* empty.
C18_Claim ==
    \A kind \in {"lnd-rest", "cln"} :
      Answered("decode_invoice", kind) =>
        /\ (\A f \in DecodeFields(kind) : Index(last.reply.body, f) = JNull)
              => ~last.res.ok
        /\ last.res.ok =>
              ~(/\ last.res.val.amount_msat = None
                /\ last.res.val.desc = None
                /\ last.res.val.payee = None)

\* The names of the four invoice states of LND.
LndStateNames == <<"open", "settled", "canceled", "accepted">>

\* C19: LndGrpc list_invoices returns one invoice per invoice of the reply,
\* its state "open", "settled", "canceled", "accepted" for the codes 0 to 3
\* and "unknown: c" with c in decimal for every other code c, negative ones
\* included (7 gives "unknown: 7"); invoices with distinct codes get distinct
\* states.
C19_StateMapping ==
    (last.op = "list_invoices" /\ adapter # None /\ adapter.kind = "lnd-grpc"
       /\ last.res.ok) =>
      LET inv == last.reply.invoices
          out == last.res.val
      IN
      /\ Len(out) = Len(inv)
      /\ \A i \in 1..Len(inv) :
           /\ inv[i].state \in 0..3 => out[i].state = LndStateNames[inv[i].state + 1]
           /\ inv[i].state \notin 0..3 =>
                out[i].state = "unknown: " \o Display(inv[i].state)
           /\ inv[i].state = 7 => out[i].state = "unknown: 7"
           /\ inv[i].state = -1 => out[i].state = "unknown: -1"
           /\ inv[i].state = 2147483647 => out[i].state = "unknown: 2147483647"
      /\ \A i, j \in 1..Len(inv) :
           inv[i].state # inv[j].state => out[i].state # out[j].state

\* C19 witness: a reply listing an invoice of state 7 and one of state 3.
C19_Witness ==
    /\ last.op = "list_invoices"
    /\ adapter # None
    /\ adapter.kind = "lnd-grpc"
    /\ last.res.ok
    /\ Len(last.res.val) = 2
    /\ last.reply.invoices[1].state = 7
    /\ last.reply.invoices[2].state = 3
    /\ last.res.val[1].state = "unknown: 7"
    /\ last.res.val[2].state = "accepted"

\* The u64 value k in 16-bit limbs.
Limbs(k) == <<0, 0, 0, k>>

\* C20 (as claimed): Cln list_invoices gives an invoice whose state is the
\* unsigned 64-bit code 0 the state "unpaid", code 1 "paid", code 2 "expired"
\* and every other code "unknown".
C20_Claim ==
    (Answered("list_invoices", "cln") /\ last.res.ok) =>
      LET inv == unwrap_or(as_array(Index(last.reply.body, "invoices")), <<>>)
          out == last.res.val
      IN
      \A i \in 1..Len(inv) :
        LET code == as_u64_limbs(Index(inv[i], "state")) IN
        code # None =>
          out[i].state = CASE code.some = Limbs(0) -> "unpaid"
                           [] code.some = Limbs(1) -> "paid"
                           [] code.some = Limbs(2) -> "expired"
                           [] OTHER -> "unknown"

\* The last call was get_balance on a LndGrpc adapter and both of its
\* requests were answered.
GrpcBalanceAnswered ==
    /\ last.op = "get_balance"
    /\ adapter # None
    /\ adapter.kind = "lnd-grpc"
    /\ last.reply.wallet # Unreachable
    /\ last.reply.channel # Unreachable

\* C21 (as claimed): LndGrpc get_balance returns, for every local channel
\* balance (msat, sat) of 64-bit values, channel_msat = msat when msat is not
\* zero and channel_msat = sat * 1000 otherwise, 0 when the local balance is
\* absent, and onchain_sat = the confirmed balance of the wallet reply.
C21_Claim ==
    GrpcBalanceAnswered =>
      LET lb == last.reply.channel.local_balance IN
      /\ last.res.ok
      /\ Len(last.res.io) = 2
      /\ last.res.val.onchain_sat = last.reply.wallet.confirmed_balance
      /\ lb = None => last.res.val.channel_msat = U64Zero
      /\ (lb # None /\ lb.some.msat # U64Zero) =>
            last.res.val.channel_msat = lb.some.msat
      /\ (lb # None /\ lb.some.msat = U64Zero) =>
            /\ ~MulU64(lb.some.sat, 1000).overflow
            /\ last.res.val.channel_msat = MulU64(lb.some.sat, 1000).val
            /\ lb.some.sat = <<0, 0, 0, 5>> =>
                 last.res.val.channel_msat = <<0, 0, 0, 5000>>

\* The msat amount of an entry of listfunds, 0 when it has none.
MsatOf(entry, field) == unwrap_or(as_u64(Index(entry, field)), 0)

\* The total of amt[i] over the indices in idx.
RECURSIVE TotalOver(_, _)
TotalOver(idx, amt) ==
    IF idx = {} THEN 0
    ELSE LET i == CHOOSE j \in idx : TRUE IN amt[i] + TotalOver(idx \ {i}, amt)

SpecLive == Spec /\ WF_vars(BackendReturn) /\ SF_vars(LockAcquired)

\* C23 (as claimed): with every backend call returning, the handle that is
\* locked becomes free again, and a worker whose thread waits in lock() gets
\* to run again, for every interleaving of requests over the workers.
C23_Claim ==
    /\ srv.lock ~> ~srv.lock
    /\ \A w \in Workers : ~WorkerFree(w) ~> WorkerFree(w)

\* The server runs with no password configured: [api] is missing or its
\* password_hash is empty, the case of the start-up warning.
NoPasswordConfigured ==
    /\ srv.pc = "serving"
    /\ srv.apiCfg # None
    /\ srv.apiCfg.password_hash = ""

\* C24 (as claimed): while the server runs with no password configured the
\* API is open: a request to /api/info or /api/invoice is never turned away
\* with 401, whatever cookie it carries.
C24_Claim ==
    NoPasswordConfigured =>
      \A r \in InFlight :
        (r.kind \in Protected /\ r.pc = "responded") => r.status # 401

====
